---- MODULE Spec2Model ----
(***************************************************************************)
(* A model of geneagrapher's genealogy graph (graph/node.py): Record,      *)
(* Node, Graph and Graph.generate_dot_file.                                *)
(*                                                                         *)
(* Python's optional values are encoded as sequences: None is << >> and a  *)
(* present value v is <<v>>.  Node objects live in the heap `objs`; an     *)
(* object's identity is its index in `objs`, and `nodes` and `heads` hold  *)
(* such indices, as the dict and the list of the program hold references.  *)
(* The text returned by generate_dot_file is kept as the sequence of the   *)
(* pieces the code appends; Text gives the string itself.                  *)
(***************************************************************************)
EXTENDS Integers, Sequences, FiniteSets, TLC

\* ------------------------------------------------------------------------
\* Bounds and inputs
\* ------------------------------------------------------------------------

\* Largest number of Node objects a graph holds a reference to.
MaxNodes == 3

\* Longest list of head Nodes handed to the Graph constructor.
MaxSeed == 1

None == << >>

Some(v) == <<v>>

\* Record.__init__: the four fields, as given.
Record(name, institution, year, id) ==
    [name |-> name, institution |-> institution, year |-> year, id |-> id]

\* Node.__init__ with the printed flag set from the start.
Node_printed(record, ancestors, descendants) ==
    [record |-> record, ancestors |-> ancestors,
     descendants |-> descendants, already_printed |-> TRUE]

\* Node.__init__: a record, its adjacency lists, and the printed flag.
Node(record, ancestors, descendants) ==
    [record |-> record, ancestors |-> ancestors,
     descendants |-> descendants, already_printed |-> FALSE]

\* The Nodes a caller constructs: ids absent, negative and positive;
\* adjacency lists that are empty, name present and missing nodes, repeat an
\* id, name the node itself and close a cycle (5 to 3 and back).
NodePool ==
    { Node(Record("A. Mathematician", None, None, Some(5)), << >>, << >>),
      Node(Record("A. Mathematician", None, None, Some(5)), <<3>>, << >>),
      Node(Record("X", Some("Y"), Some(1990), Some(3)), << >>, <<5>>),
      Node(Record("X", None, Some(1990), None), <<3, 5>>, <<-1>>),
      Node(Record("X", Some("Y"), None, Some(-1)), <<5, 5>>, <<-1, 3>>) }

\* The ids a caller looks up.
LookupIds == {Some(-1), Some(3), Some(5)}

\* ------------------------------------------------------------------------
\* State
\* ------------------------------------------------------------------------

VARIABLES
    objs,       \* the Node objects the graph refers to, by reference
    nodes,      \* Graph.nodes: dict from id to Node reference
    heads,      \* Graph.heads: None or a list of Node references
    supp_id,    \* Graph.supp_id: the next "dummy" id
    assigned,   \* history: the dummy ids handed out by set_id, in order
    called,     \* the method of the last call
    raised,     \* the exception the last call raised, or None
    returned,   \* the value the last call returned
    frame       \* the locals of a running generate_dot_file, or None

vars == <<objs, nodes, heads, supp_id, assigned, called, raised, returned, frame>>

\* The Graph object `self` of the current state.
self == [objs |-> objs, nodes |-> nodes, heads |-> heads, supp_id |-> supp_id]

\* ------------------------------------------------------------------------
\* Record and Node
\* ------------------------------------------------------------------------

has_institution(record) == record.institution # None

has_year(record) == record.year # None

\* str() of a Python int.
str(i) == ToString(i)

\* "{}".format(id) of an id that may be None.
format_id(id) == IF id = None THEN "None" ELSE str(id[1])

\* Node.__str__ with a line break in place of the backslash and the n.
Node__str___line_break(node) ==
    IF has_institution(node.record)
    THEN IF has_year(node.record)
         THEN node.record.name \o " \n" \o node.record.institution[1]
                  \o " (" \o str(node.record.year[1]) \o ")"
         ELSE node.record.name \o " \n" \o node.record.institution[1]
    ELSE IF has_year(node.record)
         THEN node.record.name \o " \n(" \o str(node.record.year[1]) \o ")"
         ELSE node.record.name

\* Node.__str__: the label; " \\n" is a space, a backslash and an n.
Node__str__(node) ==
    IF has_institution(node.record)
    THEN IF has_year(node.record)
         THEN node.record.name \o " \\n" \o node.record.institution[1]
                  \o " (" \o str(node.record.year[1]) \o ")"
         ELSE node.record.name \o " \\n" \o node.record.institution[1]
    ELSE IF has_year(node.record)
         THEN node.record.name \o " \\n(" \o str(node.record.year[1]) \o ")"
         ELSE node.record.name

\* Record.__str__ of record.py: the display string of a record.
Record__str__(record) ==
    IF has_institution(record)
    THEN IF has_year(record)
         THEN record.name \o " \\n" \o record.institution[1]
                  \o " (" \o str(record.year[1]) \o ")"
         ELSE record.name \o " \\n" \o record.institution[1]
    ELSE IF has_year(record)
         THEN record.name \o " \\n(" \o str(record.year[1]) \o ")"
         ELSE record.name

get_id(node) == node.record.id

set_id(node, id) == [node EXCEPT !.record.id = id]

\* ------------------------------------------------------------------------
\* Graph
\* ------------------------------------------------------------------------

\* self.nodes[key] = ref
DictSet(d, key, ref) ==
    [k \in DOMAIN d \cup {key} |-> IF k = key THEN ref ELSE d[k]]

RECURSIVE seed_nodes(_, _)
\* Graph.__init__, the loop of lines 151-152 over heads[i..]: each head is
\* stored under its id, a later head replacing an earlier one.
seed_nodes(hs, i) ==
    IF i = 0 THEN << >>
    ELSE DictSet(seed_nodes(hs, i - 1), get_id(hs[i]), i)

\* Graph.__init__(heads): heads is None or a list of Nodes.
Graph__init__(hs) ==
    IF hs = None
    THEN [objs |-> << >>, nodes |-> << >>, heads |-> None, supp_id |-> -1]
    ELSE [objs |-> hs[1],
          nodes |-> seed_nodes(hs[1], Len(hs[1])),
          heads |-> Some([i \in 1..Len(hs[1]) |-> i]),
          supp_id |-> -1]

has_node(g, id) == id \in DOMAIN g.nodes

get_node(g, id) == IF has_node(g, id) THEN Some(g.nodes[id]) ELSE None

\* A Python object that is a str, and one that is an int.
StrObject(s) == [type |-> "str", value |-> s]

IntObject(i) == [type |-> "int", value |-> i]

\* DuplicateNodeError that does not keep its argument.
DuplicateNodeError_no_value(value) ==
    [exception |-> "DuplicateNodeError", value |-> StrObject("")]

\* DuplicateNodeError.__init__: self.value = value
DuplicateNodeError(value) == [exception |-> "DuplicateNodeError", value |-> value]

\* msg = "node with id {} already exists".format(node.get_id())
format_msg(id) == StrObject("node with id " \o format_id(id) \o " already exists")

\* add_node_object with the duplicate check after the update of heads.
add_node_object_heads_first(g, node, isHead) ==
    IF get_id(node) # None /\ has_node(g, get_id(node))
    THEN LET msg == format_msg(get_id(node))
             heads1 == IF g.heads = None THEN g.heads
                       ELSE IF isHead THEN Some(Append(g.heads[1], g.nodes[get_id(node)]))
                       ELSE g.heads
         IN [g |-> [g EXCEPT !.heads = heads1], node |-> node,
             raised |-> Some(DuplicateNodeError(msg))]
    ELSE LET node1 == IF get_id(node) = None
                      THEN set_id(node, Some(g.supp_id)) ELSE node
             supp1 == IF get_id(node) = None
                      THEN g.supp_id - 1 ELSE g.supp_id
             ref   == Len(g.objs) + 1
             heads1 == IF g.heads = None THEN Some(<<ref>>)
                       ELSE IF isHead THEN Some(Append(g.heads[1], ref))
                       ELSE g.heads
         IN [g |-> [objs |-> Append(g.objs, node1),
                    nodes |-> DictSet(g.nodes, get_id(node1), ref),
                    heads |-> heads1,
                    supp_id |-> supp1],
             node |-> node1,
             raised |-> None]

\* add_node_object without the decrement of supp_id.
add_node_object_no_decrement(g, node, isHead) ==
    IF get_id(node) # None /\ has_node(g, get_id(node))
    THEN LET msg == format_msg(get_id(node))
         IN [g |-> g, node |-> node, raised |-> Some(DuplicateNodeError(msg))]
    ELSE LET node1 == IF get_id(node) = None
                      THEN set_id(node, Some(g.supp_id)) ELSE node
             ref   == Len(g.objs) + 1
             heads1 == IF g.heads = None THEN Some(<<ref>>)
                       ELSE IF isHead THEN Some(Append(g.heads[1], ref))
                       ELSE g.heads
         IN [g |-> [objs |-> Append(g.objs, node1),
                    nodes |-> DictSet(g.nodes, get_id(node1), ref),
                    heads |-> heads1,
                    supp_id |-> g.supp_id],
             node |-> node1,
             raised |-> None]

\* add_node_object storing the node before it gives it its dummy id.
add_node_object_late_id(g, node, isHead) ==
    IF get_id(node) # None /\ has_node(g, get_id(node))
    THEN LET msg == format_msg(get_id(node))
         IN [g |-> g, node |-> node, raised |-> Some(DuplicateNodeError(msg))]
    ELSE LET node1 == IF get_id(node) = None
                      THEN set_id(node, Some(g.supp_id)) ELSE node
             supp1 == IF get_id(node) = None
                      THEN g.supp_id - 1 ELSE g.supp_id
             ref   == Len(g.objs) + 1
             heads1 == IF g.heads = None THEN Some(<<ref>>)
                       ELSE IF isHead THEN Some(Append(g.heads[1], ref))
                       ELSE g.heads
         IN [g |-> [objs |-> Append(g.objs, node1),
                    nodes |-> DictSet(g.nodes, get_id(node), ref),
                    heads |-> heads1,
                    supp_id |-> supp1],
             node |-> node1,
             raised |-> None]

\* Graph.add_node_object: the graph after the call, the Node as the call
\* leaves it, and the exception raised (None when the node was inserted).
add_node_object(g, node, isHead) ==
    IF get_id(node) # None /\ has_node(g, get_id(node))
    THEN LET msg == format_msg(get_id(node))
         IN [g |-> g, node |-> node, raised |-> Some(DuplicateNodeError(msg))]
    ELSE LET node1 == IF get_id(node) = None
                      THEN set_id(node, Some(g.supp_id)) ELSE node
             supp1 == IF get_id(node) = None
                      THEN g.supp_id - 1 ELSE g.supp_id
             ref   == Len(g.objs) + 1
             heads1 == IF g.heads = None THEN Some(<<ref>>)
                       ELSE IF isHead THEN Some(Append(g.heads[1], ref))
                       ELSE g.heads
         IN [g |-> [objs |-> Append(g.objs, node1),
                    nodes |-> DictSet(g.nodes, get_id(node1), ref),
                    heads |-> heads1,
                    supp_id |-> supp1],
             node |-> node1,
             raised |-> None]

\* Graph.add_node: build the Record and the Node, then add_node_object.
add_node(g, name, institution, year, id, ancestors, descendants, isHead) ==
    add_node_object(g, Node(Record(name, institution, year, id),
                            ancestors, descendants), isHead)

\* ------------------------------------------------------------------------
\* generate_dot_file
\* ------------------------------------------------------------------------

\* The pieces of text the code appends to dotfile and edges.
Preamble == [piece |-> "preamble"]

Newline == [piece |-> "newline"]

Closing == [piece |-> "closing"]

\* nodestr = "    {} [label=\"{}\"];".format(node_id, node)
nodestr(node_id, node) ==
    [piece |-> "nodestr", node_id |-> node_id, label |-> Node__str__(node)]

\* edgestr = "\n    {} -> {};".format(advisor, node_id)
edgestr(advisor, node_id) ==
    [piece |-> "edgestr", advisor |-> advisor, node_id |-> node_id]

\* The characters of one piece.
PieceText(p) ==
    CASE p.piece = "preamble" ->
            "digraph genealogy {\n    graph [charset=\"utf-8\"];\n"
            \o "    node [shape=plaintext];\n    edge [style=bold];\n\n"
      [] p.piece = "newline" -> "\n"
      [] p.piece = "closing" -> "\n}\n"
      [] p.piece = "nodestr" ->
            "    " \o format_id(p.node_id) \o " [label=\"" \o p.label \o "\"];"
      [] p.piece = "edgestr" ->
            "\n    " \o str(p.advisor) \o " -> " \o format_id(p.node_id) \o ";"

RECURSIVE Text(_)
\* The string a sequence of pieces stands for.
Text(ps) == IF ps = << >> THEN "" ELSE PieceText(Head(ps)) \o Text(Tail(ps))

\* A list of ids as the queue holds them.
AsIds(ids) == [i \in DOMAIN ids |-> Some(ids[i])]

\* node_edges without the has_node test.
node_edges_unfiltered(g, node, node_id) ==
    [i \in DOMAIN node.ancestors |-> edgestr(node.ancestors[i], node_id)]

\* The edge pieces of one node: lines 247-250.
node_edges(g, node, node_id) ==
    LET present == SelectSeq(node.ancestors, LAMBDA advisor : has_node(g, Some(advisor)))
    IN [i \in DOMAIN present |-> edgestr(present[i], node_id)]

\* loop_body without the newline after the node line.
loop_body_no_newline(st, include_ancestors, include_descendants) ==
    LET node_id == st.queue[Len(st.queue)]
        queue1  == SubSeq(st.queue, 1, Len(st.queue) - 1)
    IN  IF ~has_node(st.g, node_id)
        THEN [st EXCEPT !.queue = queue1]
        ELSE LET ref  == get_node(st.g, node_id)[1]
                 node == st.g.objs[ref]
             IN  IF node.already_printed
                 THEN [st EXCEPT !.queue = queue1]
                 ELSE LET queue2 == IF include_ancestors
                                    THEN queue1 \o AsIds(node.ancestors)
                                    ELSE queue1
                          queue3 == IF include_descendants
                                    THEN queue2 \o AsIds(node.descendants)
                                    ELSE queue2
                      IN [g |-> [st.g EXCEPT !.objs[ref].already_printed = TRUE],
                          queue |-> queue3,
                          dotfile |-> st.dotfile \o <<nodestr(node_id, node)>>,
                          edges |-> st.edges \o node_edges(st.g, node, node_id)]

\* loop_body writing the edges of a node right after its node line.
loop_body_inline_edges(st, include_ancestors, include_descendants) ==
    LET node_id == st.queue[Len(st.queue)]
        queue1  == SubSeq(st.queue, 1, Len(st.queue) - 1)
    IN  IF ~has_node(st.g, node_id)
        THEN [st EXCEPT !.queue = queue1]
        ELSE LET ref  == get_node(st.g, node_id)[1]
                 node == st.g.objs[ref]
             IN  IF node.already_printed
                 THEN [st EXCEPT !.queue = queue1]
                 ELSE LET queue2 == IF include_ancestors
                                    THEN queue1 \o AsIds(node.ancestors)
                                    ELSE queue1
                          queue3 == IF include_descendants
                                    THEN queue2 \o AsIds(node.descendants)
                                    ELSE queue2
                      IN [g |-> [st.g EXCEPT !.objs[ref].already_printed = TRUE],
                          queue |-> queue3,
                          dotfile |-> (st.dotfile \o <<nodestr(node_id, node)>>)
                                         \o node_edges(st.g, node, node_id)
                                         \o <<Newline>>,
                          edges |-> st.edges]

\* loop_body reading the last id of the queue without taking it off when
\* no node has that id.
loop_body_peek(st, include_ancestors, include_descendants) ==
    LET node_id == st.queue[Len(st.queue)]
        queue1  == SubSeq(st.queue, 1, Len(st.queue) - 1)
    IN  IF ~has_node(st.g, node_id)
        THEN st
        ELSE LET ref  == get_node(st.g, node_id)[1]
                 node == st.g.objs[ref]
             IN  IF node.already_printed
                 THEN [st EXCEPT !.queue = queue1]
                 ELSE LET queue2 == IF include_ancestors
                                    THEN queue1 \o AsIds(node.ancestors)
                                    ELSE queue1
                          queue3 == IF include_descendants
                                    THEN queue2 \o AsIds(node.descendants)
                                    ELSE queue2
                      IN [g |-> [st.g EXCEPT !.objs[ref].already_printed = TRUE],
                          queue |-> queue3,
                          dotfile |-> st.dotfile \o <<nodestr(node_id, node), Newline>>,
                          edges |-> st.edges \o node_edges(st.g, node, node_id)]

\* loop_body setting the printed flag in the branch of the descendants.
loop_body_mark_late(st, include_ancestors, include_descendants) ==
    LET node_id == st.queue[Len(st.queue)]
        queue1  == SubSeq(st.queue, 1, Len(st.queue) - 1)
    IN  IF ~has_node(st.g, node_id)
        THEN [st EXCEPT !.queue = queue1]
        ELSE LET ref  == get_node(st.g, node_id)[1]
                 node == st.g.objs[ref]
             IN  IF node.already_printed
                 THEN [st EXCEPT !.queue = queue1]
                 ELSE LET queue2 == IF include_ancestors
                                    THEN queue1 \o AsIds(node.ancestors)
                                    ELSE queue1
                          queue3 == IF include_descendants
                                    THEN queue2 \o AsIds(node.descendants)
                                    ELSE queue2
                      IN [g |-> [st.g EXCEPT !.objs[ref].already_printed = include_descendants],
                          queue |-> queue3,
                          dotfile |-> st.dotfile \o <<nodestr(node_id, node), Newline>>,
                          edges |-> st.edges \o node_edges(st.g, node, node_id)]

\* loop_body taking the first id of the queue, not the last.
loop_body_fifo(st, include_ancestors, include_descendants) ==
    LET node_id == st.queue[1]
        queue1  == SubSeq(st.queue, 2, Len(st.queue))
    IN  IF ~has_node(st.g, node_id)
        THEN [st EXCEPT !.queue = queue1]
        ELSE LET ref  == get_node(st.g, node_id)[1]
                 node == st.g.objs[ref]
             IN  IF node.already_printed
                 THEN [st EXCEPT !.queue = queue1]
                 ELSE LET queue2 == IF include_ancestors
                                    THEN queue1 \o AsIds(node.ancestors)
                                    ELSE queue1
                          queue3 == IF include_descendants
                                    THEN queue2 \o AsIds(node.descendants)
                                    ELSE queue2
                      IN [g |-> [st.g EXCEPT !.objs[ref].already_printed = TRUE],
                          queue |-> queue3,
                          dotfile |-> st.dotfile \o <<nodestr(node_id, node), Newline>>,
                          edges |-> st.edges \o node_edges(st.g, node, node_id)]

\* loop_body taking the ancestors out of the node as it queues them.
loop_body_consuming(st, include_ancestors, include_descendants) ==
    LET node_id == st.queue[Len(st.queue)]
        queue1  == SubSeq(st.queue, 1, Len(st.queue) - 1)
    IN  IF ~has_node(st.g, node_id)
        THEN [st EXCEPT !.queue = queue1]
        ELSE LET ref  == get_node(st.g, node_id)[1]
                 node == st.g.objs[ref]
             IN  IF node.already_printed
                 THEN [st EXCEPT !.queue = queue1]
                 ELSE LET queue2 == IF include_ancestors
                                    THEN queue1 \o AsIds(node.ancestors)
                                    ELSE queue1
                          queue3 == IF include_descendants
                                    THEN queue2 \o AsIds(node.descendants)
                                    ELSE queue2
                      IN [g |-> [st.g EXCEPT !.objs[ref].already_printed = TRUE,
                                          !.objs[ref].ancestors = << >>],
                          queue |-> queue3,
                          dotfile |-> st.dotfile \o <<nodestr(node_id, node), Newline>>,
                          edges |-> st.edges \o node_edges(st.g, node, node_id)]

\* loop_body queueing the ancestors by include_descendants and the
\* descendants by include_ancestors.
loop_body_swapped_flags(st, include_ancestors, include_descendants) ==
    LET node_id == st.queue[Len(st.queue)]
        queue1  == SubSeq(st.queue, 1, Len(st.queue) - 1)
    IN  IF ~has_node(st.g, node_id)
        THEN [st EXCEPT !.queue = queue1]
        ELSE LET ref  == get_node(st.g, node_id)[1]
                 node == st.g.objs[ref]
             IN  IF node.already_printed
                 THEN [st EXCEPT !.queue = queue1]
                 ELSE LET queue2 == IF include_descendants
                                    THEN queue1 \o AsIds(node.ancestors)
                                    ELSE queue1
                          queue3 == IF include_ancestors
                                    THEN queue2 \o AsIds(node.descendants)
                                    ELSE queue2
                      IN [g |-> [st.g EXCEPT !.objs[ref].already_printed = TRUE],
                          queue |-> queue3,
                          dotfile |-> st.dotfile \o <<nodestr(node_id, node), Newline>>,
                          edges |-> st.edges \o node_edges(st.g, node, node_id)]

\* One pass of the while loop, lines 223-252, on the loop state
\* st = [g, queue, edges, dotfile].
loop_body(st, include_ancestors, include_descendants) ==
    LET node_id == st.queue[Len(st.queue)]
        queue1  == SubSeq(st.queue, 1, Len(st.queue) - 1)
    IN  IF ~has_node(st.g, node_id)
        THEN [st EXCEPT !.queue = queue1]
        ELSE LET ref  == get_node(st.g, node_id)[1]
                 node == st.g.objs[ref]
             IN  IF node.already_printed
                 THEN [st EXCEPT !.queue = queue1]
                 ELSE LET queue2 == IF include_ancestors
                                    THEN queue1 \o AsIds(node.ancestors)
                                    ELSE queue1
                          queue3 == IF include_descendants
                                    THEN queue2 \o AsIds(node.descendants)
                                    ELSE queue2
                      IN [g |-> [st.g EXCEPT !.objs[ref].already_printed = TRUE],
                          queue |-> queue3,
                          dotfile |-> st.dotfile \o <<nodestr(node_id, node), Newline>>,
                          edges |-> st.edges \o node_edges(st.g, node, node_id)]

RECURSIVE while_queue(_, _, _)
\* The while loop, lines 222-252.
while_queue(st, include_ancestors, include_descendants) ==
    IF Len(st.queue) > 0
    THEN while_queue(loop_body(st, include_ancestors, include_descendants),
                     include_ancestors, include_descendants)
    ELSE st

\* The loop state before the first pass: lines 211-220.
loop_start(g) ==
    [g |-> g,
     queue |-> [i \in DOMAIN g.heads[1] |-> get_id(g.objs[g.heads[1][i]])],
     edges |-> << >>,
     dotfile |-> <<Preamble>>]

\* generate_dot_file clearing the printed flags before it returns.
generate_dot_file_reset(g, include_ancestors, include_descendants) ==
    IF g.heads = None
    THEN [g |-> g, returned |-> << >>]
    ELSE LET st == while_queue(loop_start(g), include_ancestors, include_descendants)
         IN [g |-> [st.g EXCEPT !.objs =
                        [i \in DOMAIN st.g.objs |->
                            [st.g.objs[i] EXCEPT !.already_printed = FALSE]]],
             returned |-> (st.dotfile \o st.edges) \o <<Closing>>]

\* Graph.generate_dot_file: the graph after the call and the pieces of the
\* returned string.
generate_dot_file(g, include_ancestors, include_descendants) ==
    IF g.heads = None
    THEN [g |-> g, returned |-> << >>]
    ELSE LET st == while_queue(loop_start(g), include_ancestors, include_descendants)
         IN [g |-> st.g, returned |-> (st.dotfile \o st.edges) \o <<Closing>>]

\* ------------------------------------------------------------------------
\* Specification
\* ------------------------------------------------------------------------

\* The lists of head Nodes a caller hands to the constructor.
SeedLists ==
    UNION {[1..n -> NodePool] : n \in 0..MaxSeed}

\* g = Graph() or g = Graph(heads)
Init ==
    \E hs \in {None} \cup {Some(l) : l \in SeedLists} :
        LET g == Graph__init__(hs)
        IN /\ objs = g.objs
           /\ nodes = g.nodes
           /\ heads = g.heads
           /\ supp_id = g.supp_id
           /\ assigned = << >>
           /\ called = "__init__"
           /\ raised = None
           /\ returned = None
           /\ frame = None

\* The effect on the state of an insertion of Node n with result r.
Insertion(n, r, method) ==
    /\ Len(objs) < MaxNodes \/ r.raised # None
    /\ objs' = r.g.objs
    /\ nodes' = r.g.nodes
    /\ heads' = r.g.heads
    /\ supp_id' = r.g.supp_id
    /\ assigned' = IF r.raised = None /\ get_id(n) = None
                   THEN Append(assigned, get_id(r.node)[1]) ELSE assigned
    /\ called' = method
    /\ raised' = r.raised
    /\ returned' = None
    /\ frame' = frame

\* g.add_node(name, institution, year, id, ancestors, descendants, isHead)
AddNode ==
    \E n \in NodePool, isHead \in BOOLEAN :
        Insertion(n, add_node(self, n.record.name, n.record.institution,
                           n.record.year, n.record.id, n.ancestors,
                           n.descendants, isHead), "add_node")

\* g.add_node_object(node, isHead) with a Node the caller constructed
AddNodeObject ==
    \E n \in NodePool, isHead \in BOOLEAN :
        Insertion(n, add_node_object(self, n, isHead), "add_node_object")

\* g.has_node(id)
HasNode ==
    \E id \in LookupIds :
        /\ called' = "has_node"
        /\ raised' = None
        /\ returned' = Some(has_node(self, id))
        /\ UNCHANGED <<objs, nodes, heads, supp_id, assigned, frame>>

\* g.get_node(id)
GetNode ==
    \E id \in LookupIds :
        /\ called' = "get_node"
        /\ raised' = None
        /\ returned' = get_node(self, id)
        /\ UNCHANGED <<objs, nodes, heads, supp_id, assigned, frame>>

\* g.generate_dot_file(include_ancestors, include_descendants)
GenerateDotFile ==
    \E include_ancestors \in BOOLEAN, include_descendants \in BOOLEAN :
        LET r == generate_dot_file(self, include_ancestors, include_descendants)
        IN /\ objs' = r.g.objs
           /\ nodes' = r.g.nodes
           /\ heads' = r.g.heads
           /\ supp_id' = r.g.supp_id
           /\ assigned' = assigned
           /\ called' = "generate_dot_file"
           /\ raised' = None
           /\ returned' = r.returned
           /\ frame' = frame

Next == AddNode \/ AddNodeObject \/ HasNode \/ GetNode \/ GenerateDotFile

Spec == Init /\ [][Next]_vars

\* ------------------------------------------------------------------------
\* generate_dot_file pass by pass
\* ------------------------------------------------------------------------

RECURSIVE build(_, _)
\* The graph, and the dummy ids handed out, after the calls
\* add_node_object(node, isHead) of a list, made in order on acc.
build(acc, calls) ==
    IF calls = << >> THEN acc
    ELSE LET r == add_node_object(acc.g, Head(calls)[1], Head(calls)[2])
         IN build([g |-> r.g,
                   assigned |-> IF r.raised = None /\ get_id(Head(calls)[1]) = None
                                THEN Append(acc.assigned, get_id(r.node)[1])
                                ELSE acc.assigned],
                  Tail(calls))

\* The lists of at most n insertions.
CallLists(n) == UNION {[1..k -> NodePool \X BOOLEAN] : k \in 0..n}

\* A graph as a constructor call and insertions leave it.
InitLoop ==
    \E hs \in {None} \cup {Some(l) : l \in SeedLists} :
        \E calls \in CallLists(MaxNodes - Len(Graph__init__(hs).objs)) :
            LET b == build([g |-> Graph__init__(hs), assigned |-> << >>], calls)
            IN /\ objs = b.g.objs
               /\ nodes = b.g.nodes
               /\ heads = b.g.heads
               /\ supp_id = b.g.supp_id
               /\ assigned = b.assigned
               /\ called = IF calls = << >> THEN "__init__" ELSE "add_node_object"
               /\ raised = None
               /\ returned = None
               /\ frame = None

\* The call of generate_dot_file up to the while loop, lines 208-220; with
\* heads None it returns at once.
Call ==
    /\ frame = None
    /\ \E include_ancestors \in BOOLEAN, include_descendants \in BOOLEAN :
          IF heads = None
          THEN /\ frame' = None
               /\ returned' = << >>
          ELSE /\ frame' = Some([include_ancestors |-> include_ancestors,
                                 include_descendants |-> include_descendants,
                                 st |-> loop_start(self)])
               /\ returned' = None
    /\ called' = "generate_dot_file"
    /\ raised' = None
    /\ UNCHANGED <<objs, nodes, heads, supp_id, assigned>>

\* One pass of the while loop, lines 222-252.
LoopStep ==
    /\ frame # None
    /\ Len(frame[1].st.queue) > 0
    /\ LET st1 == loop_body(frame[1].st, frame[1].include_ancestors,
                            frame[1].include_descendants)
       IN /\ frame' = Some([frame[1] EXCEPT !.st = st1])
          /\ objs' = st1.g.objs
    /\ UNCHANGED <<nodes, heads, supp_id, assigned, called, raised, returned>>

\* The end of the loop and the return, lines 254-258.
Return ==
    /\ frame # None
    /\ Len(frame[1].st.queue) = 0
    /\ returned' = (frame[1].st.dotfile \o frame[1].st.edges) \o <<Closing>>
    /\ frame' = None
    /\ UNCHANGED <<objs, nodes, heads, supp_id, assigned, called, raised>>

NextLoop == Call \/ LoopStep \/ Return

\* The interpreter goes on with a call that has begun.
SpecLoop ==
    InitLoop /\ [][NextLoop]_vars /\ WF_vars(LoopStep) /\ WF_vars(Return)

\* ------------------------------------------------------------------------
\* Properties
\* ------------------------------------------------------------------------

InsertionMethods == {"add_node", "add_node_object"}

\* This step is an insertion that returned normally.
Inserted == called' \in InsertionMethods /\ raised' = None

\* This step is an insertion that raised.
Rejected == called' \in InsertionMethods /\ raised' # None

\* The Node object the last successful insertion stored.
NewRef(os) == Len(os)

NoHeads(h) == h = None \/ h = Some(<< >>)

\* C1 (as claimed): no insertion replaces a Node stored under a key of
\* nodes: a successful insertion stores the node under an id that was not
\* a key, leaves every other entry alone and adds exactly one key.
C1_NoOverwrite ==
    [][Inserted =>
          /\ get_id(objs'[NewRef(objs')]) \notin DOMAIN nodes
          /\ \A k \in DOMAIN nodes : nodes'[k] = nodes[k]
          /\ Cardinality(DOMAIN nodes') = Cardinality(DOMAIN nodes) + 1]_vars

\* C2: an insertion of a node whose id is present and already a key raises
\* DuplicateNodeError and changes nothing: nodes, heads, supp_id, the node
\* objects (their ids and printed flags) and the rejected node are as
\* before, whatever isHead is; this holds of add_node_object and add_node
\* in every reachable state, and of every step that raised.
C2_DuplicateAtomic ==
    /\ [](\A n \in NodePool, isHead \in BOOLEAN :
            (get_id(n) # None /\ get_id(n) \in DOMAIN nodes) =>
                LET r == add_node_object(self, n, isHead)
                    q == add_node(self, n.record.name, n.record.institution,
                                  n.record.year, n.record.id, n.ancestors,
                                  n.descendants, isHead)
                IN /\ r.raised # None
                   /\ r.raised[1].exception = "DuplicateNodeError"
                   /\ r.g = self
                   /\ r.node = n
                   /\ q = r)
    /\ [][Rejected => UNCHANGED <<objs, nodes, heads, supp_id, assigned>>]_vars

\* C2 witness: an insertion has just been rejected by a graph that holds
\* a head and a printed node.
C2_Witness ==
    /\ called \in InsertionMethods
    /\ raised # None
    /\ heads # None
    /\ \E i \in DOMAIN objs : objs[i].already_printed

HasHead == heads # None /\ Len(heads[1]) >= 1

\* C3 (as claimed): of two calls of generate_dot_file in a row on a graph
\* with a head, the first returns a non-empty string and the second "".
C3_SecondRenderEmpty ==
    [][(called = "generate_dot_file" /\ called' = "generate_dot_file" /\ HasHead)
          => (returned # << >> /\ returned' = << >>)]_vars

\* C3 (amended): of two calls of generate_dot_file in a row on a graph with
\* a head, both return a non-empty string, and the second returns the
\* document without any node or edge line: the preamble directly followed
\* by a newline, the closing brace and a newline.
C3_SecondRenderBare ==
    [][(called = "generate_dot_file" /\ called' = "generate_dot_file" /\ HasHead)
          => /\ returned # << >>
             /\ returned' = <<Preamble, Closing>>
             /\ Text(returned') =
                    "digraph genealogy {\n    graph [charset=\"utf-8\"];\n"
                    \o "    node [shape=plaintext];\n    edge [style=bold];\n\n\n}\n"]_vars

\* C3 witness: generate_dot_file has returned the bare document for a graph
\* with a head, which takes an earlier call that printed the heads.
C3_Witness ==
    /\ called = "generate_dot_file"
    /\ HasHead
    /\ returned = <<Preamble, Closing>>
    /\ \A i \in DOMAIN heads[1] : objs[nodes[get_id(objs[heads[1][i]])]].already_printed

\* C4: supp_id is negative and equals -1 minus the number of dummy ids
\* handed out; the k-th dummy id handed out is -k; and supp_id moves only
\* in a successful insertion of a node without id, which gets the old
\* supp_id as its id while supp_id goes down by one; no other step hands
\* out a dummy id.
C4_SyntheticIds ==
    /\ [](/\ supp_id < 0
          /\ supp_id = -1 - Len(assigned)
          /\ \A k \in DOMAIN assigned : assigned[k] = -k)
    /\ [][supp_id' # supp_id =>
            /\ Inserted
            /\ supp_id' = supp_id - 1
            /\ get_id(objs'[NewRef(objs')]) = Some(supp_id)
            /\ assigned' = Append(assigned, supp_id)]_vars
    /\ [][supp_id' = supp_id => assigned' = assigned]_vars

\* C4 witness: an empty graph was given three nodes without id, which are
\* now -1, -2 and -3 in insertion order.
C4_Witness ==
    /\ Len(objs) = 3
    /\ assigned = <<-1, -2, -3>>
    /\ \A k \in 1..3 : get_id(objs[k]) = Some(-k) /\ nodes[Some(-k)] = k

\* C5 (as claimed): generate_dot_file on a graph without heads (heads None
\* or an empty list) returns "" and marks no node.
C5_NoHeadsEmptyString ==
    (called = "generate_dot_file" /\ NoHeads(heads)) =>
        /\ returned = << >>
        /\ Text(returned) = ""
        /\ \A i \in DOMAIN objs : ~objs[i].already_printed

\* C6: every head has an id that is a key of nodes, and the node stored
\* under that key has that id.
C6_HeadsAreKeys ==
    heads # None =>
        \A i \in DOMAIN heads[1] :
            LET id == get_id(objs[heads[1][i]])
            IN /\ id \in DOMAIN nodes
               /\ get_id(objs[nodes[id]]) = id

\* C6 witness: after insertions, one of them rejected, and a call of
\* generate_dot_file, the graph has two heads and a node that is no head.
C6_Witness ==
    /\ heads # None
    /\ Len(heads[1]) = 2
    /\ Len(objs) = 3
    /\ Cardinality(DOMAIN nodes) = 3
    /\ \E i \in DOMAIN objs : objs[i].already_printed
    /\ called \in InsertionMethods
    /\ raised # None

\* C7 (as claimed): a successful insertion into a graph without heads
\* (heads None or an empty list) makes the node the only head, whatever
\* isHead is; into a graph with heads it appends the node to heads when
\* isHead is true and leaves heads alone otherwise.
C7_HeadsAfterInsert ==
    [][Inserted =>
          \E n \in NodePool, isHead \in BOOLEAN :
              LET r == add_node_object(self, n, isHead)
                  ref == Len(objs) + 1
              IN /\ r.raised = None
                 /\ r.g = self'
                 /\ heads' = IF NoHeads(heads) THEN Some(<<ref>>)
                             ELSE IF isHead THEN Some(Append(heads[1], ref))
                             ELSE heads]_vars

\* The pieces of one kind, in order.
Pieces(ps, kind) == SelectSeq(ps, LAMBDA p : p.piece = kind)

\* ps is the preamble, some node lines each followed by a newline, some
\* edge lines, and the closing piece.
IsDocument(ps) ==
    /\ Len(ps) >= 2
    /\ ps[1] = Preamble
    /\ ps[Len(ps)] = Closing
    /\ \E k \in 0..Len(ps) :
          \A i \in 2..(Len(ps) - 1) :
              IF i <= 1 + 2 * k
              THEN ps[i].piece = (IF i % 2 = 0 THEN "nodestr" ELSE "newline")
              ELSE ps[i].piece = "edgestr"

\* generate_dot_file has just printed the only node of the graph: a head
\* with id 5, name "A. Mathematician", no institution, year or ancestors.
SingleNodeCase ==
    /\ called = "generate_dot_file"
    /\ heads = Some(<<1>>)
    /\ nodes = DictSet(<< >>, Some(5), 1)
    /\ objs = <<[Node(Record("A. Mathematician", None, None, Some(5)),
                      << >>, << >>) EXCEPT !.already_printed = TRUE]>>
    /\ Len(Pieces(returned, "nodestr")) = 1

\* C8 (as claimed): the single node case gives the node line directly
\* followed by the line of the closing brace.
C8_NoBlankLine ==
    SingleNodeCase =>
        Text(returned) =
            "digraph genealogy {\n    graph [charset=\"utf-8\"];\n"
            \o "    node [shape=plaintext];\n    edge [style=bold];\n\n"
            \o "    5 [label=\"A. Mathematician\"];\n"
            \o "}\n"

\* C8 (amended): the document is the preamble, a node line and a newline
\* per printed node, the edge lines, each starting with a newline, and
\* then a newline, the closing brace and a newline; so the single node
\* case gives the node line, an empty line and the line of the brace.
C8_Document ==
    (called = "generate_dot_file" /\ heads # None) =>
        /\ IsDocument(returned)
        /\ \A i \in DOMAIN returned :
              /\ returned[i].piece = "nodestr" =>
                    PieceText(returned[i]) =
                        "    " \o format_id(returned[i].node_id) \o " [label=\""
                        \o Node__str__(objs[nodes[returned[i].node_id]]) \o "\"];"
              /\ returned[i].piece = "edgestr" =>
                    PieceText(returned[i]) =
                        "\n    " \o ToString(returned[i].advisor) \o " -> "
                        \o format_id(returned[i].node_id) \o ";"
              /\ returned[i].piece = "newline" => PieceText(returned[i]) = "\n"
              /\ returned[i].piece = "closing" => PieceText(returned[i]) = "\n}\n"
        /\ SingleNodeCase =>
              Text(returned) =
                  "digraph genealogy {\n    graph [charset=\"utf-8\"];\n"
                  \o "    node [shape=plaintext];\n    edge [style=bold];\n\n"
                  \o "    5 [label=\"A. Mathematician\"];\n"
                  \o "\n}\n"

\* C8 witness: the single node case.
C8_Witness == SingleNodeCase

RECURSIVE AncestorEdges(_, _)
\* The edges a -> n for the ids a of ancs that are keys of nodes.
AncestorEdges(ancs, n) ==
    IF ancs = << >> THEN << >>
    ELSE (IF Some(Head(ancs)) \in DOMAIN nodes
          THEN <<[piece |-> "edgestr", advisor |-> Head(ancs), node_id |-> n]>>
          ELSE << >>)
         \o AncestorEdges(Tail(ancs), n)

RECURSIVE ExpectedEdges(_)
\* The edges of the printed nodes, by node in the order of the node lines.
ExpectedEdges(nodelines) ==
    IF nodelines = << >> THEN << >>
    ELSE AncestorEdges(objs[nodes[Head(nodelines).node_id]].ancestors,
                       Head(nodelines).node_id)
         \o ExpectedEdges(Tail(nodelines))

\* generate_dot_file has just printed node 5 with ancestors [3] and node 3
\* without ancestors, the only nodes of the graph.
TwoNodeCase ==
    /\ called = "generate_dot_file"
    /\ DOMAIN nodes = {Some(3), Some(5)}
    /\ objs[nodes[Some(5)]].ancestors = <<3>>
    /\ objs[nodes[Some(3)]].ancestors = << >>
    /\ {p.node_id : p \in {returned[i] : i \in DOMAIN returned} \cap
                          {q \in {returned[i] : i \in DOMAIN returned} :
                              q.piece = "nodestr"}} = {Some(3), Some(5)}

\* C9: the edge lines of a document are, for each printed node in the
\* order of the node lines and each of its ancestors in stored order that
\* is a key of nodes, the line of that ancestor and the node; every edge
\* line comes after every node line; and nodes 5 (ancestors [3]) and 3
\* give the one edge 3 -> 5.
C9_EdgeLines ==
    (called = "generate_dot_file" /\ heads # None) =>
        /\ Pieces(returned, "edgestr")
              = ExpectedEdges(Pieces(returned, "nodestr"))
        /\ \A i, j \in DOMAIN returned :
              (returned[i].piece = "nodestr" /\ returned[j].piece = "edgestr")
                  => i < j
        /\ TwoNodeCase =>
              /\ Pieces(returned, "edgestr") = <<edgestr(3, Some(5))>>
              /\ Text(Pieces(returned, "edgestr")) = "\n    3 -> 5;"

\* C9 witness: a document with two node lines and the edges of both nodes,
\* where an ancestor without node gave no edge.
C9_Witness ==
    /\ called = "generate_dot_file"
    /\ Len(Pieces(returned, "nodestr")) >= 2
    /\ Len(Pieces(returned, "edgestr")) >= 2
    /\ \E i \in DOMAIN returned :
          /\ returned[i].piece = "nodestr"
          /\ \E a \in DOMAIN objs[nodes[returned[i].node_id]].ancestors :
                Some(objs[nodes[returned[i].node_id]].ancestors[a]) \notin DOMAIN nodes

\* The ids of a list that are keys of the graph's nodes.
Present(g, ids) == SelectSeq(ids, LAMBDA id : Some(id) \in DOMAIN g.nodes)

\* The graph without its frontier references.
Pruned(g) ==
    [g EXCEPT !.objs =
        [i \in DOMAIN g.objs |->
            [g.objs[i] EXCEPT !.ancestors = Present(g, @),
                              !.descendants = Present(g, @)]]]

\* C10: in every reachable state and for all flags, generate_dot_file
\* returns what it returns for the graph without its frontier references.
C10_FrontierDropped ==
    \A include_ancestors \in BOOLEAN, include_descendants \in BOOLEAN :
        generate_dot_file(self, include_ancestors, include_descendants).returned
            = generate_dot_file(Pruned(self), include_ancestors,
                                include_descendants).returned

\* C10 witness: generate_dot_file has just printed a node of which an
\* ancestor and a descendant have no node.
C10_Witness ==
    /\ called = "generate_dot_file"
    /\ \E i \in DOMAIN returned :
          /\ returned[i].piece = "nodestr"
          /\ LET node == objs[nodes[returned[i].node_id]]
             IN /\ Present(self, node.ancestors) # node.ancestors
                /\ Present(self, node.descendants) # node.descendants

\* C11 (as claimed): the DuplicateNodeError of a rejected insertion carries
\* the id of the rejected node, an integer.
C11_CarriesId ==
    [][Rejected =>
          \E n \in NodePool, isHead \in BOOLEAN :
              /\ get_id(n) # None
              /\ add_node_object(self, n, isHead).raised = raised'
              /\ raised'[1].value.type = "int"
              /\ raised'[1].value.value = get_id(n)[1]]_vars

\* C11 (amended): the DuplicateNodeError of a rejected insertion carries
\* the string "node with id <id> already exists", <id> being the id of the
\* rejected node in decimal; it carries no integer.
C11_CarriesMessage ==
    /\ [](\A n \in NodePool, isHead \in BOOLEAN :
            LET r == add_node_object(self, n, isHead)
            IN r.raised # None =>
                  /\ get_id(n) # None
                  /\ r.raised[1].exception = "DuplicateNodeError"
                  /\ r.raised[1].value.type = "str"
                  /\ r.raised[1].value.value =
                        "node with id " \o ToString(get_id(n)[1]) \o " already exists")
    /\ [][Rejected =>
            \E n \in NodePool :
                /\ get_id(n) # None
                /\ get_id(n) \in DOMAIN nodes
                /\ raised'[1].value.type = "str"
                /\ raised'[1].value.value =
                      "node with id " \o ToString(get_id(n)[1]) \o " already exists"]_vars

\* C11 witness: the insertion of a second node with id -1 has been rejected.
C11_Witness ==
    /\ called \in InsertionMethods
    /\ raised # None
    /\ Some(-1) \in DOMAIN nodes
    /\ raised[1].value.value = "node with id -1 already exists"

\* C12 (as claimed): every key of nodes is an integer and is the id of the
\* Node stored under it.
C12_KeysAreIds ==
    \A k \in DOMAIN nodes :
        /\ k # None
        /\ get_id(objs[nodes[k]]) = k

\* The two characters backslash and n.
BackslashN == "\\n"

\* The label body by the table: the parts in order, by the presence of
\* the institution and the year.
LabelBody(record) ==
    CASE record.institution # None /\ record.year # None ->
            record.name \o " " \o BackslashN \o record.institution[1] \o " "
            \o "(" \o ToString(record.year[1]) \o ")"
      [] record.institution # None /\ record.year = None ->
            record.name \o " " \o BackslashN \o record.institution[1]
      [] record.institution = None /\ record.year # None ->
            record.name \o " " \o BackslashN \o "(" \o ToString(record.year[1]) \o ")"
      [] record.institution = None /\ record.year = None ->
            record.name

\* C13: the label of every node of the graph is the label body of the
\* table, Node.__str__ and Record.__str__ give the same string for it, the
\* node lines of a document carry it, and name X, institution Y, year 1990
\* give X, space, backslash, n, Y, space, (1990).
C13_Labels ==
    /\ Len(BackslashN) = 2
    /\ \A i \in DOMAIN objs :
          /\ Node__str__(objs[i]) = LabelBody(objs[i].record)
          /\ Record__str__(objs[i].record) = Node__str__(objs[i])
          /\ (objs[i].record.name = "X" /\ objs[i].record.institution = Some("Y")
                /\ objs[i].record.year = Some(1990))
                => /\ Node__str__(objs[i]) = "X \\nY (1990)"
                   /\ Len(Node__str__(objs[i])) = 12
    /\ called = "generate_dot_file" =>
          \A i \in DOMAIN returned :
              returned[i].piece = "nodestr" =>
                  returned[i].label = LabelBody(objs[nodes[returned[i].node_id]].record)

\* C13 witness: a document with the node lines of three nodes, one with
\* institution and year, one with the year only and one with the
\* institution only; the graph also holds a node with neither.
C13_Witness ==
    /\ called = "generate_dot_file"
    /\ \E i, j, k \in DOMAIN returned :
          /\ returned[i].piece = "nodestr" /\ returned[i].label = "X \\nY (1990)"
          /\ returned[j].piece = "nodestr" /\ returned[j].label = "X \\n(1990)"
          /\ returned[k].piece = "nodestr" /\ returned[k].label = "X \\nY"

\* C14: every call of generate_dot_file returns: a call that has entered
\* the loop leaves it and returns a document, whatever the flags and the
\* adjacency lists are.
C14_Terminates ==
    (frame # None) ~>
        (frame = None /\ called = "generate_dot_file" /\ IsDocument(returned))

\* C14 witness: a call with both flags has returned the node lines of
\* nodes -1, 3 and 5, where 5 names 3 as ancestor, 3 names 5 as descendant
\* and -1 names itself as descendant and 5 twice as ancestor.
C14_Witness ==
    /\ frame = None
    /\ called = "generate_dot_file"
    /\ DOMAIN nodes = {Some(-1), Some(3), Some(5)}
    /\ objs[nodes[Some(5)]].ancestors = <<3>>
    /\ objs[nodes[Some(3)]].descendants = <<5>>
    /\ objs[nodes[Some(-1)]].descendants = <<-1, 3>>
    /\ Len(Pieces(returned, "nodestr")) = 3
    /\ returned[2].node_id = Some(-1)

\* The ids of the node lines of a document, in order.
NodeLineIds(ps) ==
    LET lines == Pieces(ps, "nodestr")
    IN [i \in DOMAIN lines |-> lines[i].node_id]

\* C15: no id has two node lines in one document; a node line is written
\* only for a Node that was not printed before the call, and that Node is
\* printed from then on, so that no later call writes its line again.
C15_EmittedOnce ==
    /\ [](called = "generate_dot_file" =>
            \A i, j \in DOMAIN NodeLineIds(returned) :
                i # j => NodeLineIds(returned)[i] # NodeLineIds(returned)[j])
    /\ [][called' = "generate_dot_file" =>
            \A i \in DOMAIN NodeLineIds(returned') :
                LET ref == nodes[NodeLineIds(returned')[i]]
                IN ~objs[ref].already_printed /\ objs'[ref].already_printed]_vars
    /\ [][\A i \in DOMAIN objs : objs[i].already_printed => objs'[i].already_printed]_vars

\* C15 witness: a call has written the lines of node -1, the only head, and
\* of node 5, which -1 lists twice as ancestor; both are printed.
C15_Witness ==
    /\ called = "generate_dot_file"
    /\ Len(objs) = 2
    /\ heads = Some(<<1>>)
    /\ get_id(objs[1]) = Some(-1)
    /\ objs[1].ancestors = <<5, 5>>
    /\ NodeLineIds(returned) = <<Some(-1), Some(5)>>
    /\ objs[1].already_printed /\ objs[2].already_printed

\* The ids a node pushes when its line is written: its ancestors if
\* ancestors are included, then its descendants if descendants are.
Pushed(node, include_ancestors, include_descendants) ==
    (IF include_ancestors THEN AsIds(node.ancestors) ELSE << >>)
    \o (IF include_descendants THEN AsIds(node.descendants) ELSE << >>)

RECURSIVE PopOrder(_, _, _, _)
\* The ids in the order a LIFO stack gives them up, seen being the ids
\* whose Node has been met: the top id, then all that it pushed, then the
\* ids below it.
PopOrder(stack, seen, include_ancestors, include_descendants) ==
    IF stack = << >> THEN << >>
    ELSE LET top  == stack[Len(stack)]
             rest == SubSeq(stack, 1, Len(stack) - 1)
         IN IF top \notin DOMAIN nodes \/ top \in seen
            THEN PopOrder(rest, seen, include_ancestors, include_descendants)
            ELSE <<top>> \o
                 PopOrder(rest \o Pushed(objs[nodes[top]], include_ancestors,
                                         include_descendants),
                          seen \cup {top}, include_ancestors, include_descendants)

\* The ids of the heads, in the order of heads.
HeadIds == [i \in DOMAIN heads[1] |-> get_id(objs[heads[1][i]])]

\* The keys of nodes whose Node is printed.
PrintedIds == {k \in DOMAIN nodes : objs[nodes[k]].already_printed}

\* C16: for all flags, the node lines of the document come in the order in
\* which a LIFO stack gives up the ids, the stack starting as the ids of
\* heads in order and each printed node pushing its ancestors and then its
\* descendants in stored order; so the last head not yet printed comes
\* first.
C16_PopOrder ==
    heads # None =>
        \A include_ancestors \in BOOLEAN, include_descendants \in BOOLEAN :
            LET ids == NodeLineIds(generate_dot_file(self, include_ancestors,
                                                     include_descendants).returned)
            IN /\ ids = PopOrder(HeadIds, PrintedIds, include_ancestors,
                                 include_descendants)
               /\ (HeadIds # << >> /\ HeadIds[Len(HeadIds)] \notin PrintedIds)
                     => ids[1] = HeadIds[Len(HeadIds)]

\* C16 witness: a call has written three node lines on a graph with two
\* heads: the last head first, then a node that is no head and that the
\* last head pushed, and the first head last.
C16_Witness ==
    /\ called = "generate_dot_file"
    /\ heads # None
    /\ Len(heads[1]) = 2
    /\ Len(NodeLineIds(returned)) = 3
    /\ NodeLineIds(returned)[1] = HeadIds[2]
    /\ NodeLineIds(returned)[3] = HeadIds[1]
    /\ NodeLineIds(returned)[2] \notin {HeadIds[1], HeadIds[2]}

\* The Node objects of heads.
HeadRefs == {heads[1][i] : i \in DOMAIN heads[1]}

\* The Node objects stored in nodes.
StoredRefs == {nodes[k] : k \in DOMAIN nodes}

\* The stored Node objects that the links of the objects in refs name.
Linked(refs, include_ancestors, include_descendants) ==
    {nodes[k] : k \in {id \in DOMAIN nodes :
        \E ref \in refs :
            \E i \in DOMAIN Pushed(objs[ref], include_ancestors, include_descendants) :
                Pushed(objs[ref], include_ancestors, include_descendants)[i] = id}}

RECURSIVE Closure(_, _, _)
\* The least set of Node objects that holds refs and is closed under Linked.
Closure(refs, include_ancestors, include_descendants) ==
    LET more == refs \cup Linked(refs, include_ancestors, include_descendants)
    IN IF more = refs THEN refs
       ELSE Closure(more, include_ancestors, include_descendants)

\* The Node objects whose line is in the document ps.
Emitted(ps) == {nodes[NodeLineIds(ps)[i]] : i \in DOMAIN NodeLineIds(ps)}

\* No Node stored in nodes is printed.
NoneVisited == \A ref \in StoredRefs : ~objs[ref].already_printed

\* C17: on a graph none of whose nodes is printed, the Node objects that a
\* call writes a line for are the stored ones reachable from a head by the
\* links the flags include, which are the heads when both flags are false;
\* so a Node that is no head and that no head reaches has no line.
C17_ReachableFromHeads ==
    (heads # None /\ NoneVisited) =>
        \A include_ancestors \in BOOLEAN, include_descendants \in BOOLEAN :
            LET out == Emitted(generate_dot_file(self, include_ancestors,
                                                 include_descendants).returned)
            IN /\ out = Closure(HeadRefs, include_ancestors, include_descendants)
                           \cap StoredRefs
               /\ (~include_ancestors /\ ~include_descendants) => out = HeadRefs

\* This step is a call of generate_dot_file that writes the line of the
\* Node object ref.
WritesLine(ref) ==
    /\ called' = "generate_dot_file"
    /\ \E k \in DOMAIN NodeLineIds(returned') : nodes[NodeLineIds(returned')[k]] = ref

\* C18: the printed flag of every Node is false in a new graph and on a
\* Node just inserted, turns true in exactly the steps in which
\* generate_dot_file writes the line of that Node, and is never cleared: by
\* no insertion, rejected insertion, lookup or later call.
C18_PrintedOneWay ==
    /\ [](called = "__init__" => \A ref \in DOMAIN objs : ~objs[ref].already_printed)
    /\ [][\A ref \in DOMAIN objs' :
            IF ref \notin DOMAIN objs
            THEN Inserted /\ ~objs'[ref].already_printed
            ELSE /\ objs[ref].already_printed => objs'[ref].already_printed
                 /\ (~objs[ref].already_printed /\ objs'[ref].already_printed)
                        <=> WritesLine(ref)]_vars

\* C18 witness: a call has written no node line on a graph that holds a
\* Node printed by an earlier call, still printed, and a Node not printed.
C18_Witness ==
    /\ called = "generate_dot_file"
    /\ NodeLineIds(returned) = << >>
    /\ Len(objs) = 3
    /\ \E ref \in DOMAIN objs : objs[ref].already_printed
    /\ \E ref \in DOMAIN objs : ~objs[ref].already_printed

\* The Node object ref is the same in this step but for its printed flag.
SameButPrinted(ref) ==
    /\ objs'[ref].record = objs[ref].record
    /\ objs'[ref].ancestors = objs[ref].ancestors
    /\ objs'[ref].descendants = objs[ref].descendants

\* C19: a call of generate_dot_file changes nothing but printed flags:
\* nodes, heads, supp_id and the record, ancestors and descendants of every
\* Node are as before, for all flags; has_node and get_node change no state;
\* get_node returns None exactly when has_node is false.
C19_RenderFrame ==
    /\ [][called' = "generate_dot_file" =>
            /\ nodes' = nodes /\ heads' = heads /\ supp_id' = supp_id
            /\ DOMAIN objs' = DOMAIN objs
            /\ \A ref \in DOMAIN objs : SameButPrinted(ref)]_vars
    /\ [][called' \in {"has_node", "get_node"} =>
            UNCHANGED <<objs, nodes, heads, supp_id>>]_vars
    /\ [](\A id \in LookupIds \cup {None} :
            (get_node(self, id) = None) <=> ~has_node(self, id))
    /\ [](called = "get_node" =>
            \/ returned = None
            \/ \E id \in LookupIds : has_node(self, id) /\ returned = Some(nodes[id]))

\* C19 witness: a call has written the lines of two nodes, one of them with
\* ancestors and descendants that it queued, on a graph that has handed
\* out a dummy id; the lists and the counter are as they were.
C19_Witness ==
    /\ called = "generate_dot_file"
    /\ supp_id = -2
    /\ Len(NodeLineIds(returned)) = 2
    /\ \E ref \in DOMAIN objs :
          /\ objs[ref].already_printed
          /\ objs[ref].ancestors = <<3, 5>>
          /\ objs[ref].descendants = <<-1>>
          /\ nodes[Some(-1)] = ref

\* Both ends of every edge line of the document ps have a node line in ps.
NoDanglingEdge(ps) ==
    LET ids == {NodeLineIds(ps)[i] : i \in DOMAIN NodeLineIds(ps)}
    IN \A e \in DOMAIN Pieces(ps, "edgestr") :
          /\ Some(Pieces(ps, "edgestr")[e].advisor) \in ids
          /\ Pieces(ps, "edgestr")[e].node_id \in ids

\* C20: on a graph none of whose nodes is printed, a call with
\* include_ancestors true returns a document in which both ends of every
\* edge line have a node line, whatever include_descendants is.
C20_NoDanglingEdge ==
    (heads # None /\ NoneVisited) =>
        \A include_descendants \in BOOLEAN :
            NoDanglingEdge(generate_dot_file(self, TRUE, include_descendants).returned)

\* C20 witness: a call on a graph none of whose nodes was printed (the
\* printed ones all have their line in the document) has written two edge
\* lines or more, of which no end lacks a node line.
C20_Witness ==
    /\ called = "generate_dot_file"
    /\ heads # None
    /\ \A ref \in StoredRefs : objs[ref].already_printed => ref \in Emitted(returned)
    /\ Len(Pieces(returned, "edgestr")) >= 2
    /\ Len(NodeLineIds(returned)) >= 2
    /\ NoDanglingEdge(returned)

====
